---- MODULE Spec2Model ----
(***************************************************************************)
(* Streamflow statistics of program_10.py: ReadData, ClipData, the metric  *)
(* calculators, GetAnnualStatistics, GetMonthlyStatistics and the two      *)
(* averaging reductions.                                                   *)
(*                                                                         *)
(* Numbers.  A float64 is modelled by an exact fraction <<n, d>>:          *)
(*   d > 0        the finite value n/d, in lowest terms;                   *)
(*   <<0, 0>>     NaN (numpy's 0.0/0.0);                                   *)
(*   <<1, 0>>, <<-1, 0>>   +inf and -inf (numpy's x/0.0).                  *)
(* Rounding is not modelled.  A value that is a square root (the standard  *)
(* deviation, scipy's skew) is kept as <<sign, square>>.                   *)
(***************************************************************************)
EXTENDS Integers, Sequences, FiniteSets

VARIABLES pc, raw, DataDF, MissingValues_Read, Clipped, startDate, endDate,
          MissingValues_Clip, WYDataDF, AnnualAverages, MoDataDF,
          MonthlyAverages, Qvalues, called, result

vars == <<pc, raw, DataDF, MissingValues_Read, Clipped, startDate, endDate,
          MissingValues_Clip, WYDataDF, AnnualAverages, MoDataDF,
          MonthlyAverages, Qvalues, called, result>>

----------------------------------------------------------------------------
(* Bounds of the model *)

\* longest raw record (rows of the station file)
MaxObs == 3
\* longest period sub-sequence handed to a calculator on its own
MaxLen == 8

----------------------------------------------------------------------------
(* float64 arithmetic *)

NaN == <<0, 0>>
Zero == <<0, 1>>

IsNaN(x) == x[1] = 0 /\ x[2] = 0
IsFinite(x) == x[2] > 0

AbsInt(n) == IF n < 0 THEN -n ELSE n
SignInt(n) == IF n < 0 THEN -1 ELSE IF n > 0 THEN 1 ELSE 0

RECURSIVE GCD(_, _)
GCD(a, b) == IF b = 0 THEN a ELSE GCD(b, a % b)

\* the fraction n/d (d # 0) in lowest terms with a positive denominator
Frac(n, d) ==
    LET g == GCD(AbsInt(n), AbsInt(d))
        s == IF d < 0 THEN -1 ELSE 1
    IN  <<(s * n) \div g, (s * d) \div g>>

\* (a/b) * (c/d) for fractions in lowest terms, cancelled before multiplying
Times(a, b, c, d) ==
    LET g == GCD(AbsInt(a), AbsInt(d))
        h == GCD(AbsInt(c), AbsInt(b))
    IN  Frac((a \div g) * (c \div h), (b \div h) * (d \div g))

Num(v) == <<v, 1>>

\* x + y: NaN propagates, inf + (-inf) is NaN
Add(x, y) ==
    IF IsNaN(x) \/ IsNaN(y) THEN NaN
    ELSE IF IsFinite(x) /\ IsFinite(y)
         THEN LET g == GCD(x[2], y[2])
              IN  Frac(x[1] * (y[2] \div g) + y[1] * (x[2] \div g),
                       (x[2] \div g) * y[2])
    ELSE IF ~IsFinite(x) /\ ~IsFinite(y)
         THEN (IF x[1] = y[1] THEN x ELSE NaN)
    ELSE IF IsFinite(x) THEN y ELSE x

Neg(x) == <<-x[1], x[2]>>
Sub(x, y) == Add(x, Neg(y))

\* x * y: NaN propagates, 0 * inf is NaN
Mul(x, y) ==
    IF IsNaN(x) \/ IsNaN(y) THEN NaN
    ELSE IF IsFinite(x) /\ IsFinite(y) THEN Times(x[1], x[2], y[1], y[2])
    ELSE <<SignInt(x[1]) * SignInt(y[1]), 0>>

\* numpy's true division of two float64 (or int64) scalars: a zero divisor
\* gives NaN or an infinity with a RuntimeWarning; nothing is raised.
NpDiv(x, y) ==
    IF IsNaN(x) \/ IsNaN(y) THEN NaN
    ELSE IF IsFinite(x) /\ IsFinite(y)
         THEN (IF y[1] = 0 THEN <<SignInt(x[1]), 0>>
               ELSE Times(x[1], x[2], y[2], y[1]))
    ELSE IF IsFinite(y) THEN <<x[1] * (IF y[1] < 0 THEN -1 ELSE 1), 0>>
    ELSE IF IsFinite(x) THEN Zero
    ELSE NaN

AbsF(x) == <<AbsInt(x[1]), x[2]>>

\* x < y; any comparison with NaN is False
Lt(x, y) ==
    /\ ~IsNaN(x) /\ ~IsNaN(y)
    /\ IF IsFinite(x) /\ IsFinite(y) THEN x[1] * y[2] < y[1] * x[2]
       ELSE IF IsFinite(x) THEN y[1] > 0
       ELSE IF IsFinite(y) THEN x[1] < 0
       ELSE x[1] < y[1]
Gt(x, y) == Lt(y, x)
Le(x, y) == ~IsNaN(x) /\ ~IsNaN(y) /\ ~Lt(y, x)
Ge(x, y) == Le(y, x)

----------------------------------------------------------------------------
(* pandas Series reductions over a sequence of float64 *)

RECURSIVE dropna(_)
dropna(q) ==
    IF q = <<>> THEN <<>>
    ELSE IF IsNaN(Head(q)) THEN dropna(Tail(q))
    ELSE <<Head(q)>> \o dropna(Tail(q))

RECURSIVE SumAll(_)
SumAll(q) == IF q = <<>> THEN Zero ELSE Add(Head(q), SumAll(Tail(q)))

\* Series.sum(): skipna, and 0 for an empty or all-NaN Series (min_count=0)
Sum(q) == SumAll(dropna(q))

\* Series.isna().sum()
CountNa(q) == Len(q) - Len(dropna(q))

\* Series.mean() and the resampler's mean(): skipna, NaN when nothing is left
Mean(q) ==
    LET f == dropna(q)
    IN  IF f = <<>> THEN NaN ELSE NpDiv(SumAll(f), Num(Len(f)))

RECURSIVE MaxAll(_)
MaxAll(q) ==
    IF Len(q) = 1 THEN q[1]
    ELSE LET m == MaxAll(Tail(q)) IN IF Lt(Head(q), m) THEN m ELSE Head(q)

RECURSIVE MinAll(_)
MinAll(q) ==
    IF Len(q) = 1 THEN q[1]
    ELSE LET m == MinAll(Tail(q)) IN IF Lt(m, Head(q)) THEN m ELSE Head(q)

\* max() / min(): skipna, NaN when nothing is left
Max(q) == LET f == dropna(q) IN IF f = <<>> THEN NaN ELSE MaxAll(f)
Min(q) == LET f == dropna(q) IN IF f = <<>> THEN NaN ELSE MinAll(f)

RECURSIVE Insert(_, _)
Insert(x, s) ==
    IF s = <<>> THEN <<x>>
    ELSE IF Lt(Head(s), x) THEN <<Head(s)>> \o Insert(x, Tail(s))
    ELSE <<x>> \o s

RECURSIVE SortF(_)
SortF(q) == IF q = <<>> THEN <<>> ELSE Insert(Head(q), SortF(Tail(q)))

\* median(): skipna; the middle value, or the mean of the two middle values
Median(q) ==
    LET s == SortF(dropna(q))
        n == Len(s)
    IN  IF n = 0 THEN NaN
        ELSE IF n % 2 = 1 THEN s[(n + 1) \div 2]
        ELSE NpDiv(Add(s[n \div 2], s[n \div 2 + 1]), Num(2))

RECURSIVE SumPow(_, _, _)
\* sum over q of (x - m)^k
SumPow(q, m, k) ==
    IF q = <<>> THEN Zero
    ELSE LET d == Sub(Head(q), m)
             p == IF k = 2 THEN Mul(d, d) ELSE Mul(d, Mul(d, d))
         IN  Add(p, SumPow(Tail(q), m, k))

\* the square of std(): skipna, ddof = 1, NaN for fewer than two values
Var(q) ==
    LET f == dropna(q)
    IN  IF Len(f) < 2 THEN NaN
        ELSE NpDiv(SumPow(f, Mean(f), 2), Num(Len(f) - 1))

\* a value kept as <<sign, square>>; NaN is <<0, NaN>>
SurdNaN == <<0, NaN>>
IsSurdNaN(s) == IsNaN(s[2])

\* std() / mean() * 100, kept as sign and square
CoeffVar(q) ==
    LET v == Var(q)
        m == Mean(q)
        sq == NpDiv(Mul(v, Num(10000)), Mul(m, m))
    IN  IF IsNaN(sq) THEN SurdNaN
        ELSE IF sq = Zero THEN <<0, Zero>>
        ELSE <<SignInt(m[1]) + (IF m[1] = 0 THEN 1 ELSE 0), sq>>

RECURSIVE diff(_)
\* Series.diff() without its leading NaN: q[i+1] - q[i]
diff(q) ==
    IF Len(q) < 2 THEN <<>>
    ELSE <<Sub(q[2], q[1])>> \o diff(Tail(q))

RECURSIVE absSeq(_)
absSeq(q) == IF q = <<>> THEN <<>> ELSE <<AbsF(Head(q))>> \o absSeq(Tail(q))

RECURSIVE CountGt(_, _)
\* (q > x).sum()
CountGt(q, x) ==
    IF q = <<>> THEN 0
    ELSE (IF Gt(Head(q), x) THEN 1 ELSE 0) + CountGt(Tail(q), x)

\* rolling(w).mean() without its leading NaNs: the mean of every window of
\* w consecutive entries (min_periods = w)
RollingMean(q, w) ==
    [i \in 1 .. (IF Len(q) >= w THEN Len(q) - w + 1 ELSE 0) |->
        NpDiv(SumAll(SubSeq(q, i, i + w - 1)), Num(w))]

----------------------------------------------------------------------------
(* The metric calculators *)

\* the window of Calc7Q's rolling mean
Window == 7

\* Python's own division, which raises on a zero divisor
ZeroDivisionError == <<0, -1>>
PyDiv(x, y) == IF y = Zero THEN ZeroDivisionError ELSE NpDiv(x, y)

\* the count divided as a Python int instead of a numpy scalar
CalcTqmean_PyDiv(Qv) ==
    LET data_q == dropna(Qv)
    IN  PyDiv(Num(CountGt(data_q, Mean(data_q))), Num(Len(data_q)))

CalcTqmean(Qv) ==
    LET data_q == dropna(Qv)
    IN  NpDiv(Num(CountGt(data_q, Mean(data_q))), Num(Len(data_q)))

\* the day-to-day changes summed with their signs
CalcRBindex_NoAbs(Qv) ==
    LET data_q == dropna(Qv)
    IN  NpDiv(Sum(diff(data_q)), Sum(Qv))

CalcRBindex(Qv) ==
    LET data_q == dropna(Qv)
        Total_abs == Sum(absSeq(diff(data_q)))
        Total_discharge == Sum(Qv)
    IN  NpDiv(Total_abs, Total_discharge)

\* the lowest 7-day total instead of the lowest 7-day mean
Calc7Q_Sum(Qv) ==
    LET data_q == dropna(Qv)
    IN  Mul(Min(RollingMean(data_q, Window)), Num(Window))

Calc7Q(Qv) ==
    LET data_q == dropna(Qv)
    IN  Min(RollingMean(data_q, Window))

CalcExceed3TimesMedian(Qv) ==
    LET data_q == dropna(Qv)
    IN  Num(CountGt(data_q, Mul(Median(data_q), Num(3))))

\* scipy.stats.skew(a) with its defaults (bias=True, nan_policy='propagate'):
\* m3 / m2^1.5 of the whole array, kept as the sign of m3 and m3^2 / m2^3.
\* A NaN anywhere in the array, or an empty array, gives NaN; m2 = 0 gives 0
\* (the scipy of the program's date).
Skew(Qv) ==
    IF Qv = <<>> \/ CountNa(Qv) > 0 THEN SurdNaN
    ELSE LET n == Num(Len(Qv))
             mean == NpDiv(SumAll(Qv), n)
             m2 == NpDiv(SumPow(Qv, mean, 2), n)
             m3 == NpDiv(SumPow(Qv, mean, 3), n)
         IN  IF m2 = Zero THEN <<0, Zero>>
             ELSE <<SignInt(m3[1]),
                    NpDiv(Mul(m3, m3), Mul(m2, Mul(m2, m2)))>>

\* the nine metric columns GetAnnualStatistics computes for one period
AnnualMetrics(Qv) ==
    [MeanFlow   |-> Mean(Qv),
     PeakFlow   |-> Max(Qv),
     MedianFlow |-> Median(Qv),
     CoeffVar   |-> CoeffVar(Qv),
     Skew       |-> Skew(Qv),
     Tqmean     |-> CalcTqmean(Qv),
     RBindex    |-> CalcRBindex(Qv),
     Q7         |-> Calc7Q(Qv),
     Median3x   |-> CalcExceed3TimesMedian(Qv)]

\* the four metric columns GetMonthlyStatistics computes for one period
MonthlyMetrics(Qv) ==
    [MeanFlow |-> Mean(Qv),
     CoeffVar |-> CoeffVar(Qv),
     Tqmean   |-> CalcTqmean(Qv),
     RBindex  |-> CalcRBindex(Qv)]

----------------------------------------------------------------------------
(* Dates and the DataFrame *)

\* A date is <<year, month, day>>.
DateLt(a, b) ==
    \/ a[1] < b[1]
    \/ a[1] = b[1] /\ a[2] < b[2]
    \/ a[1] = b[1] /\ a[2] = b[2] /\ a[3] < b[3]
DateLe(a, b) == a = b \/ DateLt(a, b)

\* the calendar years a station file covers
Years == {2000, 2001}

\* the days a station file may hold a row for: the two sides of the
\* water-year boundary and one day in mid year
FileDates == {<<y, md[1], md[2]>> : y \in Years, md \in {<<1, 1>>, <<9, 30>>, <<10, 1>>}}

\* the dates ClipData is called with, as startDate and as endDate
ClipDates == {<<2000, 1, 1>>, <<2000, 10, 1>>, <<2001, 10, 1>>}

\* the site_no column of the station file
SiteNo == 3335000

\* the discharge readings of a raw file row; NaN is read_csv's own missing value
\* (an empty field or the 'Eqp' flag)
RawReadings == {NaN, Num(-5), Num(0), Num(3)}

\* A DataFrame is a sequence of rows [Date, site_no, Discharge] in index order;
\* agency_cd and Quality are text columns no statistic reads.
Row(d, v) == [Date |-> d, site_no |-> Num(SiteNo), Discharge |-> v]

Discharge(df) == [i \in 1 .. Len(df) |-> df[i].Discharge]
Site(df) == [i \in 1 .. Len(df) |-> df[i].site_no]

\* the assignment reaching a copy of the column: nothing is scrubbed
Scrub_NoEffect(df) == df

\* DataDF.Discharge[DataDF['Discharge'] < 0] = np.nan
\* (the chained assignment writes through to DataDF in the pandas of the
\* program's date)
Scrub(df) ==
    [i \in 1 .. Len(df) |->
        IF Lt(df[i].Discharge, Zero) THEN [df[i] EXCEPT !.Discharge = NaN]
        ELSE df[i]]

\* the missing values counted after the scrubbing instead of before it
ReadData_CountAfterScrub(fileRows) ==
    <<Scrub(fileRows), CountNa(Discharge(Scrub(fileRows)))>>

ReadData(fileRows) ==
    LET MissingValues == CountNa(Discharge(fileRows))
    IN  <<Scrub(fileRows), MissingValues>>

\* index.searchsorted(d, side='left'): the number of rows dated before d
RECURSIVE CountBefore(_, _)
CountBefore(df, d) ==
    IF df = <<>> \/ ~DateLt(Head(df).Date, d) THEN 0
    ELSE 1 + CountBefore(Tail(df), d)

\* index.searchsorted(d, side='right'): the number of rows dated d or before
RECURSIVE CountUpTo(_, _)
CountUpTo(df, d) ==
    IF df = <<>> \/ ~DateLe(Head(df).Date, d) THEN 0
    ELSE 1 + CountUpTo(Tail(df), d)

\* a slice that leaves the end date out
Loc_ExclusiveEnd(df, s, e) ==
    SubSeq(df, CountBefore(df, s) + 1, CountBefore(df, e))

\* a slice that puts crossed bounds in order
Loc_Swapped(df, s, e) ==
    IF DateLt(e, s) THEN SubSeq(df, CountBefore(df, e) + 1, CountUpTo(df, s))
    ELSE SubSeq(df, CountBefore(df, s) + 1, CountUpTo(df, e))

\* DataDF.loc[s:e] on the sorted DatetimeIndex: the positional slice between
\* the two searchsorted positions, empty when they cross
Loc(df, s, e) == SubSeq(df, CountBefore(df, s) + 1, CountUpTo(df, e))

ClipData(df, s, e) ==
    LET clipped == Loc(df, s, e)
    IN  <<clipped, CountNa(Discharge(clipped))>>

----------------------------------------------------------------------------
(* resample('AS-OCT') and resample('MS') *)

\* a rollback that sends October itself to the year before
YearBeginRollback_AfterOct(d) ==
    IF d[2] > 10 THEN <<d[1], 10, 1>> ELSE <<d[1] - 1, 10, 1>>

\* YearBegin(month=10).rollback(d): the Oct 1 on or before d
YearBeginRollback(d) ==
    IF d[2] >= 10 THEN <<d[1], 10, 1>> ELSE <<d[1] - 1, 10, 1>>
NextYearBegin(e) == <<e[1] + 1, e[2], e[3]>>

\* MonthBegin().rollback(d): the first of d's month
MonthBeginRollback(d) == <<d[1], d[2], 1>>
NextMonthBegin(e) ==
    IF e[2] = 12 THEN <<e[1] + 1, 1, 1>> ELSE <<e[1], e[2] + 1, 1>>

\* date_range(first, last + freq, freq): the bin edges from e up to the first
\* edge after the last row
RECURSIVE YearEdges(_, _)
YearEdges(e, last) ==
    IF DateLt(last, e) THEN <<e>>
    ELSE <<e>> \o YearEdges(NextYearBegin(e), last)

RECURSIVE MonthEdges(_, _)
MonthEdges(e, last) ==
    IF DateLt(last, e) THEN <<e>>
    ELSE <<e>> \o MonthEdges(NextMonthBegin(e), last)

\* generate_bins_dt64(closed='left') with label='left': bin i is labelled by
\* edge i and holds the rows from the first one not before edge i up to the
\* last one before edge i+1; a bin between two rows may be empty
Bins(df, edges) ==
    [i \in 1 .. (Len(edges) - 1) |->
        [label |-> edges[i],
         rows  |-> SubSeq(df, CountBefore(df, edges[i]) + 1,
                              CountBefore(df, edges[i + 1]))]]

ResampleASOCT(df) ==
    IF df = <<>> THEN <<>>
    ELSE Bins(df, YearEdges(YearBeginRollback(df[1].Date), df[Len(df)].Date))

ResampleMS(df) ==
    IF df = <<>> THEN <<>>
    ELSE Bins(df, MonthEdges(MonthBeginRollback(df[1].Date), df[Len(df)].Date))

GetAnnualStatistics(df) ==
    LET bins == ResampleASOCT(df)
    IN  [i \in 1 .. Len(bins) |->
            [label   |-> bins[i].label,
             site_no |-> Mean(Site(bins[i].rows)),
             stats   |-> AnnualMetrics(Discharge(bins[i].rows))]]

GetMonthlyStatistics(df) ==
    LET bins == ResampleMS(df)
    IN  [i \in 1 .. Len(bins) |->
            [label   |-> bins[i].label,
             site_no |-> Mean(Site(bins[i].rows)),
             stats   |-> MonthlyMetrics(Discharge(bins[i].rows))]]

----------------------------------------------------------------------------
(* The reductions *)

RECURSIVE dropSurdNa(_)
dropSurdNa(q) ==
    IF q = <<>> THEN <<>>
    ELSE IF IsSurdNaN(Head(q)) THEN dropSurdNa(Tail(q))
    ELSE <<Head(q)>> \o dropSurdNa(Tail(q))

\* the mean of a column of square roots, kept as its terms and their number
\* (NaN entries skipped; no term left is NaN)
SurdMean(col) ==
    LET f == dropSurdNa(col) IN [n |-> Len(f), terms |-> f]

\* WYDataDF.mean(axis=0)
GetAnnualAverages(WY) ==
    [site_no    |-> Mean([i \in 1 .. Len(WY) |-> WY[i].site_no]),
     MeanFlow   |-> Mean([i \in 1 .. Len(WY) |-> WY[i].stats.MeanFlow]),
     PeakFlow   |-> Mean([i \in 1 .. Len(WY) |-> WY[i].stats.PeakFlow]),
     MedianFlow |-> Mean([i \in 1 .. Len(WY) |-> WY[i].stats.MedianFlow]),
     CoeffVar   |-> SurdMean([i \in 1 .. Len(WY) |-> WY[i].stats.CoeffVar]),
     Skew       |-> SurdMean([i \in 1 .. Len(WY) |-> WY[i].stats.Skew]),
     Tqmean     |-> Mean([i \in 1 .. Len(WY) |-> WY[i].stats.Tqmean]),
     RBindex    |-> Mean([i \in 1 .. Len(WY) |-> WY[i].stats.RBindex]),
     Q7         |-> Mean([i \in 1 .. Len(WY) |-> WY[i].stats.Q7]),
     Median3x   |-> Mean([i \in 1 .. Len(WY) |-> WY[i].stats.Median3x])]

RECURSIVE RowsOfMonth_First(_, _)
\* only the first year's row of month number m
RowsOfMonth_First(Mo, m) ==
    IF Mo = <<>> THEN <<>>
    ELSE IF Head(Mo).label[2] = m THEN <<Head(Mo)>>
    ELSE RowsOfMonth_First(Tail(Mo), m)

RECURSIVE RowsOfMonth(_, _)
\* the rows of the monthly table whose label has month number m
RowsOfMonth(Mo, m) ==
    IF Mo = <<>> THEN <<>>
    ELSE IF Head(Mo).label[2] = m THEN <<Head(Mo)>> \o RowsOfMonth(Tail(Mo), m)
    ELSE RowsOfMonth(Tail(Mo), m)

\* the group keys of groupby(index.month): the month numbers present
MonthKeys(Mo) == {Mo[i].label[2] : i \in 1 .. Len(Mo)}

RECURSIVE SortedKeys(_)
\* groupby's sort=True: the keys in ascending order
SortedKeys(S) ==
    IF S = {} THEN <<>>
    ELSE LET m == CHOOSE x \in S : \A y \in S : x <= y
         IN  <<m>> \o SortedKeys(S \ {m})

\* MoDataDF.groupby(by=[MoDataDF.index.month]).mean()
GetMonthlyAverages(Mo) ==
    LET keys == SortedKeys(MonthKeys(Mo))
    IN  [k \in 1 .. Len(keys) |->
            LET g == RowsOfMonth(Mo, keys[k])
            IN  [month    |-> keys[k],
                 site_no  |-> Mean([i \in 1 .. Len(g) |-> g[i].site_no]),
                 MeanFlow |-> Mean([i \in 1 .. Len(g) |-> g[i].stats.MeanFlow]),
                 CoeffVar |-> SurdMean([i \in 1 .. Len(g) |-> g[i].stats.CoeffVar]),
                 Tqmean   |-> Mean([i \in 1 .. Len(g) |-> g[i].stats.Tqmean]),
                 RBindex  |-> Mean([i \in 1 .. Len(g) |-> g[i].stats.RBindex])]]

----------------------------------------------------------------------------
(* The script, one station: the steps of the loop body of __main__ *)

NoAverages == [n |-> 0]

Init ==
    /\ pc = "file"
    /\ raw = <<>>
    /\ DataDF = <<>>
    /\ MissingValues_Read = 0
    /\ Clipped = <<>>
    /\ startDate = <<0, 0, 0>>
    /\ endDate = <<0, 0, 0>>
    /\ MissingValues_Clip = 0
    /\ WYDataDF = <<>>
    /\ AnnualAverages = NoAverages
    /\ MoDataDF = <<>>
    /\ MonthlyAverages = <<>>
    /\ Qvalues = <<>>
    /\ called = "none"
    /\ result = [value |-> NaN]

metricVars == <<Qvalues, called, result>>
tableVars == <<WYDataDF, AnnualAverages, MoDataDF, MonthlyAverages>>
clipVars == <<Clipped, startDate, endDate, MissingValues_Clip>>

\* read_csv: the station file holds one more row, dated after the rows before it
FileRow(d, v) ==
    /\ pc = "file"
    /\ Len(raw) < MaxObs
    /\ IF raw = <<>> THEN TRUE ELSE DateLt(raw[Len(raw)].Date, d)
    /\ raw' = Append(raw, Row(d, v))
    /\ UNCHANGED <<pc, DataDF, MissingValues_Read, clipVars, tableVars, metricVars>>

Step_ReadData ==
    /\ pc = "file"
    /\ DataDF' = ReadData(raw)[1]
    /\ MissingValues_Read' = ReadData(raw)[2]
    /\ pc' = "read"
    /\ UNCHANGED <<raw, clipVars, tableVars, metricVars>>

Step_ClipData(s, e) ==
    /\ pc = "read"
    /\ startDate' = s
    /\ endDate' = e
    /\ Clipped' = ClipData(DataDF, s, e)[1]
    /\ MissingValues_Clip' = ClipData(DataDF, s, e)[2]
    /\ pc' = "clipped"
    /\ UNCHANGED <<raw, DataDF, MissingValues_Read, tableVars, metricVars>>

Step_GetAnnualStatistics ==
    /\ pc = "clipped"
    /\ WYDataDF' = GetAnnualStatistics(Clipped)
    /\ pc' = "annual"
    /\ UNCHANGED <<raw, DataDF, MissingValues_Read, clipVars, AnnualAverages,
                   MoDataDF, MonthlyAverages, metricVars>>

Step_GetAnnualAverages ==
    /\ pc = "annual"
    /\ AnnualAverages' = GetAnnualAverages(WYDataDF)
    /\ pc' = "annual_avg"
    /\ UNCHANGED <<raw, DataDF, MissingValues_Read, clipVars, WYDataDF,
                   MoDataDF, MonthlyAverages, metricVars>>

Step_GetMonthlyStatistics ==
    /\ pc = "annual_avg"
    /\ MoDataDF' = GetMonthlyStatistics(Clipped)
    /\ pc' = "monthly"
    /\ UNCHANGED <<raw, DataDF, MissingValues_Read, clipVars, WYDataDF,
                   AnnualAverages, MonthlyAverages, metricVars>>

Step_GetMonthlyAverages ==
    /\ pc = "monthly"
    /\ MonthlyAverages' = GetMonthlyAverages(MoDataDF)
    /\ pc' = "done"
    /\ UNCHANGED <<raw, DataDF, MissingValues_Read, clipVars, WYDataDF,
                   AnnualAverages, MoDataDF, metricVars>>

Next ==
    \/ \E d \in FileDates, v \in RawReadings : FileRow(d, v)
    \/ Step_ReadData
    \/ \E s \in ClipDates, e \in ClipDates : Step_ClipData(s, e)
    \/ Step_GetAnnualStatistics
    \/ Step_GetAnnualAverages
    \/ Step_GetMonthlyStatistics
    \/ Step_GetMonthlyAverages

Spec == Init /\ [][Next]_vars

----------------------------------------------------------------------------
(* The calculators on their own: one period's sub-sequence of a cleaned    *)
(* series, and one call                                                     *)

\* the readings of a cleaned series: NaN or a non-negative discharge
Readings == {NaN, Num(0), Num(1)}

pipeVars == <<pc, raw, DataDF, MissingValues_Read, clipVars, tableVars>>

\* the period holds one more day
PeriodDay(v) ==
    /\ called = "none"
    /\ Len(Qvalues) < MaxLen
    /\ Qvalues' = Append(Qvalues, v)
    /\ UNCHANGED <<called, result, pipeVars>>

Call_CalcTqmean ==
    /\ called = "none"
    /\ called' = "CalcTqmean"
    /\ result' = [value |-> CalcTqmean(Qvalues)]
    /\ UNCHANGED <<Qvalues, pipeVars>>

Call_CalcRBindex ==
    /\ called = "none"
    /\ called' = "CalcRBindex"
    /\ result' = [value |-> CalcRBindex(Qvalues)]
    /\ UNCHANGED <<Qvalues, pipeVars>>

Call_Calc7Q ==
    /\ called = "none"
    /\ called' = "Calc7Q"
    /\ result' = [value |-> Calc7Q(Qvalues)]
    /\ UNCHANGED <<Qvalues, pipeVars>>

Call_CalcExceed3TimesMedian ==
    /\ called = "none"
    /\ called' = "CalcExceed3TimesMedian"
    /\ result' = [value |-> CalcExceed3TimesMedian(Qvalues)]
    /\ UNCHANGED <<Qvalues, pipeVars>>

\* the row GetAnnualStatistics writes for the period
Call_AnnualMetrics ==
    /\ called = "none"
    /\ called' = "AnnualMetrics"
    /\ result' = AnnualMetrics(Qvalues)
    /\ UNCHANGED <<Qvalues, pipeVars>>

NextMetrics ==
    \/ \E v \in Readings : PeriodDay(v)
    \/ Call_CalcTqmean
    \/ Call_CalcRBindex
    \/ Call_Calc7Q
    \/ Call_CalcExceed3TimesMedian
    \/ Call_AnnualMetrics

SpecMetrics == Init /\ [][NextMetrics]_vars

----------------------------------------------------------------------------
(* Properties of the script's steps (checked under Spec) *)

AfterRead == pc # "file"
AfterClip == pc \notin {"file", "read"}
AfterAnnual == pc \in {"annual", "annual_avg", "monthly", "done"}
AfterMonthly == pc \in {"monthly", "done"}

IsNegative(v) == Lt(v, Zero)

\* C1: the series ReadData returns holds no negative discharge: a row whose
\* raw discharge is negative has become missing, and every other row (raw
\* discharge non-negative or already missing) keeps its value; every row keeps
\* its date and its position.
C1_CleanedHasNoNegative ==
    AfterRead =>
        /\ Len(DataDF) = Len(raw)
        /\ \A i \in 1 .. Len(raw) :
              /\ DataDF[i].Date = raw[i].Date
              /\ ~IsNegative(DataDF[i].Discharge)
              /\ IsNegative(raw[i].Discharge) => IsNaN(DataDF[i].Discharge)
              /\ ~IsNegative(raw[i].Discharge) =>
                    DataDF[i].Discharge = raw[i].Discharge

\* a file with a negative, a missing and a positive reading has been cleaned
C1_Witness ==
    /\ pc = "read"
    /\ \E i, j, k \in 1 .. Len(raw) :
          /\ IsNegative(raw[i].Discharge)
          /\ IsNaN(raw[j].Discharge)
          /\ Gt(raw[k].Discharge, Zero)

InWindow(d, s, e) == DateLe(s, d) /\ DateLe(d, e)

\* the rows of df dated within [s, e], in their order
RowsWithin(df, s, e) ==
    LET Within(r) == InWindow(r.Date, s, e) IN SelectSeq(df, Within)

MissingIn(df) == Cardinality({i \in 1 .. Len(df) : IsNaN(df[i].Discharge)})

\* C2: for s <= e, ClipData returns exactly the rows of the series dated
\* within [s, e] inclusive, in their original order, and the missing count is
\* the number of missing discharges among the rows returned.
C2_ClipIsWindow ==
    (AfterClip /\ DateLe(startDate, endDate)) =>
        /\ Clipped = RowsWithin(DataDF, startDate, endDate)
        /\ MissingValues_Clip = MissingIn(Clipped)

\* a clip that keeps some rows and drops others at both ends, with a row on
\* the end date itself and a scrubbed reading among the rows kept
C2_Witness ==
    /\ pc = "clipped"
    /\ DateLt(startDate, endDate)
    /\ Len(Clipped) = 2
    /\ Len(DataDF) > 2
    /\ DateLt(DataDF[1].Date, startDate)
    /\ Clipped[2].Date = endDate
    /\ \E i \in 1 .. Len(raw) :
          IsNegative(raw[i].Discharge) /\ InWindow(raw[i].Date, startDate, endDate)

\* C3 as stated: a call with startDate > endDate fails with InvalidRange and
\* returns no clipped series and no missing count (read on the calls that
\* clip a series with rows in it).
C3_InvalidRangeFails ==
    (AfterClip /\ DataDF # <<>>) => ~DateLt(endDate, startDate)

\* C3 as the code has it: a call with startDate > endDate raises nothing and
\* returns an empty clipped series with a missing count of 0.
C3_CrossedRangeIsEmpty ==
    (AfterClip /\ DateLt(endDate, startDate)) =>
        /\ Clipped = <<>>
        /\ MissingValues_Clip = 0

\* a crossed range with a missing row of the series between its two dates
C3_Witness ==
    /\ pc = "clipped"
    /\ DateLt(endDate, startDate)
    /\ \E i \in 1 .. Len(DataDF) :
          /\ InWindow(DataDF[i].Date, endDate, startDate)
          /\ IsNaN(DataDF[i].Discharge)

\* C10: ReadData's missing count is the number of rows whose discharge is
\* missing in the raw input; a row scrubbed from negative to missing is not in
\* it, and is counted only by a later ClipData whose window holds it.
C10_MissingCountedBeforeScrub ==
    /\ AfterRead =>
          MissingValues_Read = MissingIn(raw)
    /\ (AfterClip /\ DateLe(startDate, endDate)) =>
          MissingValues_Clip =
              Cardinality({i \in 1 .. Len(raw) :
                  /\ InWindow(raw[i].Date, startDate, endDate)
                  /\ (IsNaN(raw[i].Discharge) \/ IsNegative(raw[i].Discharge))})

\* raw [negative, positive, positive], nothing missing: 0 at ingestion and 1
\* after a clip that keeps the whole series
C10_Witness ==
    /\ pc = "clipped"
    /\ Len(raw) = 3
    /\ IsNegative(raw[1].Discharge)
    /\ ~IsNaN(raw[2].Discharge) /\ ~IsNegative(raw[2].Discharge)
    /\ ~IsNaN(raw[3].Discharge) /\ ~IsNegative(raw[3].Discharge)
    /\ Len(Clipped) = 3
    /\ MissingValues_Read = 0
    /\ MissingValues_Clip = 1

\* the water year a date belongs to, by the calendar
WaterYearOf(d) == IF d[2] >= 10 THEN d[1] ELSE d[1] - 1

\* the discharges of the clipped rows of water year Y, in order
WaterYearDischarge(Y) ==
    LET InYear(r) == WaterYearOf(r.Date) = Y
    IN  Discharge(SelectSeq(Clipped, InYear))

\* C4: the water-year periods tile the clipped range: every period starts on
\* an Oct 1 and is labelled by that year, each period starts where the one
\* before it ends (the next Oct 1), the first and the last period hold the
\* first and the last Observation, and every Observation lies in exactly one
\* period, the one labelled by its water year; a period's statistics are those
\* of the Observations lying in it.
C4_WaterYearsTile ==
    AfterAnnual =>
        /\ \A i \in 1 .. Len(WYDataDF) :
              /\ WYDataDF[i].label[2] = 10 /\ WYDataDF[i].label[3] = 1
              /\ i > 1 => WYDataDF[i].label[1] = WYDataDF[i - 1].label[1] + 1
              /\ WYDataDF[i].stats =
                    AnnualMetrics(WaterYearDischarge(WYDataDF[i].label[1]))
        /\ (Clipped = <<>>) = (WYDataDF = <<>>)
        /\ Clipped # <<>> =>
              /\ WYDataDF[1].label[1] = WaterYearOf(Clipped[1].Date)
              /\ WYDataDF[Len(WYDataDF)].label[1] =
                    WaterYearOf(Clipped[Len(Clipped)].Date)
        /\ \A j \in 1 .. Len(Clipped) :
              LET d == Clipped[j].Date
                  holding == {i \in 1 .. Len(WYDataDF) :
                                /\ DateLe(WYDataDF[i].label, d)
                                /\ DateLt(d, <<WYDataDF[i].label[1] + 1, 10, 1>>)}
              IN  /\ Cardinality(holding) = 1
                  /\ \A i \in holding : WYDataDF[i].label[1] = WaterYearOf(d)

\* three water years, with Observations on Sep 30 and on Oct 1
C4_Witness ==
    /\ pc = "annual"
    /\ Len(WYDataDF) = 3
    /\ \E j, k \in 1 .. Len(Clipped) :
          /\ Clipped[j].Date[2] = 9 /\ Clipped[j].Date[3] = 30
          /\ Clipped[k].Date[2] = 10 /\ Clipped[k].Date[3] = 1
          /\ Clipped[k].Date[1] = Clipped[j].Date[1]

RECURSIVE SumOfSet(_, _)
\* the sum of f over the index set S
SumOfSet(f, S) ==
    IF S = {} THEN Zero
    ELSE LET i == CHOOSE x \in S : TRUE
         IN  Add(f[i], SumOfSet(f, S \ {i}))

\* the mean of the defined entries of f over S, undefined when there is none
MeanOfSet(f, S) ==
    LET D == {i \in S : ~IsNaN(f[i])}
    IN  IF D = {} THEN NaN ELSE NpDiv(SumOfSet(f, D), Num(Cardinality(D)))

MonthsPresent == {MoDataDF[i].label[2] : i \in 1 .. Len(MoDataDF)}

\* C7 as stated: the monthly averages have exactly 12 rows, one per month
\* number 1..12 in month-number order.
C7_TwelveRows ==
    pc = "done" =>
        /\ Len(MonthlyAverages) = 12
        /\ \A k \in 1 .. Len(MonthlyAverages) : MonthlyAverages[k].month = k

\* C7 as the code has it: one row per month number that occurs in the monthly
\* table, in month-number order, so 12 rows 1..12 once the table holds a row
\* for every month number and fewer before; each row is the column-wise mean,
\* undefined entries left out, of all the monthly rows with that month number
\* whatever their year.
C7_RowPerMonthPresent ==
    pc = "done" =>
        /\ {MonthlyAverages[k].month : k \in 1 .. Len(MonthlyAverages)} = MonthsPresent
        /\ \A k \in 1 .. Len(MonthlyAverages) :
              k > 1 => MonthlyAverages[k - 1].month < MonthlyAverages[k].month
        /\ Len(MoDataDF) >= 12 =>
              /\ Len(MonthlyAverages) = 12
              /\ \A k \in 1 .. 12 : MonthlyAverages[k].month = k
        /\ \A k \in 1 .. Len(MonthlyAverages) :
              LET S == {i \in 1 .. Len(MoDataDF) :
                           MoDataDF[i].label[2] = MonthlyAverages[k].month}
              IN  /\ MonthlyAverages[k].site_no =
                        MeanOfSet([i \in 1 .. Len(MoDataDF) |-> MoDataDF[i].site_no], S)
                  /\ MonthlyAverages[k].MeanFlow =
                        MeanOfSet([i \in 1 .. Len(MoDataDF) |-> MoDataDF[i].stats.MeanFlow], S)
                  /\ MonthlyAverages[k].Tqmean =
                        MeanOfSet([i \in 1 .. Len(MoDataDF) |-> MoDataDF[i].stats.Tqmean], S)
                  /\ MonthlyAverages[k].RBindex =
                        MeanOfSet([i \in 1 .. Len(MoDataDF) |-> MoDataDF[i].stats.RBindex], S)
                  /\ MonthlyAverages[k].CoeffVar.n =
                        Cardinality({i \in S : ~IsSurdNaN(MoDataDF[i].stats.CoeffVar)})

\* twelve rows, with a month whose mean flow differs between two years
C7_Witness ==
    /\ pc = "done"
    /\ Len(MonthlyAverages) = 12
    /\ \E i, j \in 1 .. Len(MoDataDF) :
          /\ MoDataDF[i].label[2] = MoDataDF[j].label[2]
          /\ ~IsNaN(MoDataDF[i].stats.MeanFlow)
          /\ ~IsNaN(MoDataDF[j].stats.MeanFlow)
          /\ MoDataDF[i].stats.MeanFlow # MoDataDF[j].stats.MeanFlow

\* the number of different values in a sequence
Distinct(q) == Cardinality({q[i] : i \in 1 .. Len(q)})

\* C8: the Skew of a water-year period is the Skew of its filtered
\* sub-sequence, missing entries excluded (stated for the periods whose
\* filtered sub-sequence holds two different values at least, where the Skew
\* of the filtered sub-sequence is a number in every scipy).
C8_SkewExcludesMissing ==
    AfterAnnual =>
        \A i \in 1 .. Len(WYDataDF) :
            LET filtered == dropna(WaterYearDischarge(WYDataDF[i].label[1]))
            IN  Distinct(filtered) >= 2 => WYDataDF[i].stats.Skew = Skew(filtered)

----------------------------------------------------------------------------
(* Properties of the calculators (checked under SpecMetrics) *)

Filtered == dropna(Qvalues)

NothingLeft == Filtered = <<>>

\* C6 as stated: on an empty or all-missing period every calculator returns
\* not-a-number, and none raises.
C6_AllUndefinedOnEmpty ==
    /\ (called \in {"CalcTqmean", "CalcRBindex", "Calc7Q", "CalcExceed3TimesMedian"}
            /\ NothingLeft) =>
          IsNaN(result.value)
    /\ (called = "AnnualMetrics" /\ NothingLeft) =>
          /\ IsNaN(result.MeanFlow)
          /\ IsNaN(result.PeakFlow)
          /\ IsNaN(result.MedianFlow)
          /\ IsSurdNaN(result.CoeffVar)
          /\ IsSurdNaN(result.Skew)
          /\ IsNaN(result.Tqmean)
          /\ IsNaN(result.RBindex)
          /\ IsNaN(result.Q7)
          /\ IsNaN(result.Median3x)

\* C6 as the code has it: on an empty or all-missing period no calculator
\* raises; Mean Flow, Peak Flow, Median Flow, Coeff Var, Skew, Tqmean, R-B
\* Index and 7Q are not-a-number, and the 3xMedian exceedance count is the
\* number 0.
C6_UndefinedOnEmptyButCount ==
    /\ (called \in {"CalcTqmean", "CalcRBindex", "Calc7Q"} /\ NothingLeft) =>
          IsNaN(result.value)
    /\ (called = "CalcExceed3TimesMedian" /\ NothingLeft) =>
          result.value = Zero
    /\ (called = "AnnualMetrics" /\ NothingLeft) =>
          /\ IsNaN(result.MeanFlow)
          /\ IsNaN(result.PeakFlow)
          /\ IsNaN(result.MedianFlow)
          /\ IsSurdNaN(result.CoeffVar)
          /\ IsSurdNaN(result.Skew)
          /\ IsNaN(result.Tqmean)
          /\ IsNaN(result.RBindex)
          /\ IsNaN(result.Q7)
          /\ result.Median3x = Zero

\* CalcTqmean has been called on a period of missing days only
C6_Witness ==
    /\ called = "CalcTqmean"
    /\ Len(Qvalues) >= 2
    /\ NothingLeft

AllSamePositive ==
    /\ Filtered # <<>>
    /\ \A i \in 1 .. Len(Filtered) : Filtered[i] = Filtered[1] /\ Gt(Filtered[i], Zero)

\* C9 as stated: for every period of a cleaned series R-B Index >= 0, and it
\* is 0 when all the non-missing entries are the same positive value.
C9_RBindexNonNegative ==
    called = "CalcRBindex" =>
        /\ Ge(result.value, Zero)
        /\ AllSamePositive => result.value = Zero

\* C9 as the code has it: R-B Index is not-a-number when the period's sum is
\* 0 (an empty, all-missing or all-zero period) and >= 0 otherwise; it is 0
\* when all the non-missing entries are the same positive value.
C9_RBindexNonNegativeOrUndefined ==
    called = "CalcRBindex" =>
        /\ IF \E i \in 1 .. Len(Filtered) : Gt(Filtered[i], Zero)
           THEN Ge(result.value, Zero)
           ELSE IsNaN(result.value)
        /\ AllSamePositive => result.value = Zero

\* a period that falls and rises again around a missing day
C9_Witness ==
    /\ called = "CalcRBindex"
    /\ Len(Qvalues) > Len(Filtered)
    /\ Gt(result.value, Zero)
    /\ \E i \in 2 .. Len(Filtered) : Lt(Filtered[i], Filtered[i - 1])

====
